---- MODULE Spec2Model ----
(***************************************************************************)
(* bin2mif: converts a raw binary byte stream into a .mif memory           *)
(* initialisation file.  The model follows the getopt variant of           *)
(* src/bin2mif.c (lines 283-639): main, generate_mif,                      *)
(* generate_mif_content, read_aligned and the helpers they call.           *)
(* One action is one stretch of straight-line code between two system      *)
(* calls whose result the environment chooses (read, dprintf, open,        *)
(* close, fstat).                                                          *)
(***************************************************************************)
EXTENDS Integers, Sequences, FiniteSets, TLC

\* ------------------------------------------------------------------ bounds
MaxDepth == 4        \* largest --depth argument tried
MaxInputLen == 4     \* longest input stream tried, in bytes

\* ------------------------------------------------------- program constants
INPUT_BUFFER_SIZE == 128
UINT8_MAX == 255
EXIT_SUCCESS == 0
BAD_NUMBER_FORMAT == 1
OVERFLOW_ERROR == 2
INVALID_ARGUMENTS == 3
FILE_OPEN_FAILURE == 4
FILE_CLOSE_FAILURE == 5
GENRATOR_FAILURE == 6
GENERATOR_EARLY_STOP == 7
STDIN_FILENO == 0
STDOUT_FILENO == 1

\* Status a shell reports for a process killed by SIGFPE / SIGSEGV.
KilledFPE == 136
KilledSEGV == 139

\* An indeterminate byte: the content of memory the program never wrote.
Uninit == -1
\* The values the indeterminate bytes of the stack are tried with: what the
\* memory of the two arrays holds before the program writes to it.
GarbageBytes == {0, 165}

\* The widths given with --width: 8 and 16 are legal, 4 is not a multiple
\* of 8, 0 is not positive; -1 and 256 are out of the range of a byte.
WidthArgs == {-1, 0, 4, 8, 16, 256}

Min(a, b) == IF a < b THEN a ELSE b

\* The i-th byte (from 0) of the input stream: 0x12, 0x34, 0x56, ...
SrcByte(i) == (18 + 34 * i) % 256

\* ------------------------------------------------------------- formatting
HexDigits == <<"0", "1", "2", "3", "4", "5", "6", "7",
               "8", "9", "a", "b", "c", "d", "e", "f">>

DecDigits == <<"0", "1", "2", "3", "4", "5", "6", "7", "8", "9">>

RECURSIVE Digits(_, _, _)
\* printf's digits of n >= 0 in the given base, most significant first.
Digits(n, base, tab) ==
    IF n < base THEN <<tab[n + 1]>>
    ELSE Digits(n \div base, base, tab) \o <<tab[(n % base) + 1]>>

RECURSIVE Zeros(_)
Zeros(k) == IF k <= 0 THEN <<>> ELSE <<"0">> \o Zeros(k - 1)

\* "%lld" / "%d".
FmtDec(n) == IF n < 0 THEN <<"-">> \o Digits(0 - n, 10, DecDigits)
             ELSE Digits(n, 10, DecDigits)

\* "%0*llx": zero-padded to at least w digits, never truncated.
FmtHexPad(w, n) ==
    LET d == Digits(n, 16, HexDigits) IN Zeros(w - Len(d)) \o d

\* "%02x" of one byte.
FmtHex2(b) == FmtHexPad(2, b)

RECURSIVE num_len_loop(_, _, _)
num_len_loop(num, base, len) ==
    IF num > 0 THEN num_len_loop(num \div base, base, len + 1) ELSE len

\* A num_len that divides once too often.
num_len_short(num, base) == num_len_loop((num \div base) \div base, base, 1)

\* num_len(num, base): the number of digits of num in the base.
num_len(num, base) == num_len_loop(num \div base, base, 1)

\* num_len(depth - 1, 16) with depth - 1 converted to unsigned long long:
\* -1 becomes 2^64 - 1, which has 16 hexadecimal digits.
addr_width(depth) == IF depth - 1 < 0 THEN 16 ELSE num_len(depth - 1, 16)

\* ------------------------------------------------------------------ state
VARIABLES
    pc,               \* position in main / generate_mif / generate_mif_content
    depth,            \* main: long long depth
    width,            \* main: byte width
    in_filename,      \* main: "-" for standard input
    out_filename,     \* main: "NULL" for standard output
    in_fd, out_fd,    \* main: descriptors, -1 once closed by safe_close
    open_fds,         \* the process's descriptor table
    double_closed,    \* descriptors passed to close(2) while not open
    in_kind,          \* what fstat says of the input: "reg", "fifo", "nostat"
    in_len,           \* length of the input stream in bytes
    in_pos,           \* read offset into the input stream
    out,              \* the writes the output sink received, in order
    errs,             \* the warn/warnx messages on standard error, in order
    exit_status,      \* the status the process ended with, -1 while running
    words_written,    \* main: what generate_mif returned
    gdepth,           \* generate_mif: its depth parameter, once resolved
    word_count,       \* generate_mif: what generate_mif_content returned
    word_size,        \* generate_mif_content: width / 8
    addr_repr_width,  \* generate_mif_content: digits of an address
    buffer,           \* generate_mif_content: byte offset -> byte written there
    words_read,       \* generate_mif_content: words left in the buffer
    put_aside_buffer, \* generate_mif_content: the carry buffer
    remainder_len,    \* generate_mif_content: the carry length
    word_idx,         \* generate_mif_content: cursor into the buffer
    addr,             \* generate_mif_content: the loop's address
    byte_idx,         \* generate_mif_content: the inner loop's byte index
    stack_fill,       \* the value of the bytes of the stack never written
    handed,           \* the words buffer[word_idx] formatted so far, in order
    oob,              \* bytes read_aligned wrote past the end of the buffer
    last_fill         \* what the most recent read_aligned call did

vars == <<pc, depth, width, in_filename, out_filename, in_fd, out_fd,
          open_fds, double_closed, in_kind, in_len, in_pos, out, errs,
          exit_status, words_written, gdepth, word_count, word_size,
          addr_repr_width, buffer, words_read, put_aside_buffer,
          remainder_len, word_idx, addr, byte_idx, stack_fill, handed, oob,
          last_fill>>

mainVars == <<depth, width, in_filename, out_filename>>
fdVars == <<in_fd, out_fd, open_fds, double_closed>>
inputVars == <<in_kind, in_len, in_pos>>
genVars == <<gdepth, word_count>>
contentVars == <<word_size, addr_repr_width, buffer, words_read,
                 put_aside_buffer, remainder_len, word_idx, addr, byte_idx,
                 stack_fill, handed, oob, last_fill>>

NoFill == [called |-> FALSE, nwords |-> 0, carry_in |-> 0, nread |-> 0, ret |-> 0,
           carry_out |-> 0]

Init ==
    /\ pc = "start"
    /\ depth = -1
    /\ width = 8
    /\ in_filename = "-"
    /\ out_filename = "NULL"
    /\ in_fd = -1
    /\ out_fd = -1
    /\ open_fds = {0, 1, 2}
    /\ double_closed = {}
    /\ in_kind = "reg"
    /\ in_len = 0
    /\ in_pos = 0
    /\ out = <<>>
    /\ errs = <<>>
    /\ exit_status = -1
    /\ words_written = 0
    /\ gdepth = -1
    /\ word_count = 0
    /\ word_size = 0
    /\ addr_repr_width = 0
    /\ buffer = <<>>
    /\ words_read = 0
    /\ put_aside_buffer = <<>>
    /\ remainder_len = 0
    /\ word_idx = 0
    /\ addr = 0
    /\ byte_idx = 0
    /\ stack_fill = 0
    /\ handed = <<>>
    /\ oob = 0
    /\ last_fill = NoFill

\* The process ends with the given status.
Exit(status) ==
    /\ pc' = "exited"
    /\ exit_status' = status

\* -------------------------------------------------------------- utilities
\* An option argument: <<"absent", 0>>, <<"junk", 0>> (not a number),
\* <<"erange", 0>> (a number outside long long) or <<"num", n>>.
WidthOpts == {<<"absent", 0>>, <<"junk", 0>>} \cup {<<"num", w>> : w \in WidthArgs}
DepthOpts == {<<"absent", 0>>, <<"junk", 0>>, <<"erange", 0>>}
             \cup {<<"num", d>> : d \in -1 .. MaxDepth}

\* str_to_byte: the status it exits with (0: it returns) and the value.
str_to_byte(a) ==
    IF a[1] = "junk" THEN [exit |-> BAD_NUMBER_FORMAT, val |-> 0]
    ELSE IF a[2] < 0 \/ a[2] > UINT8_MAX THEN [exit |-> OVERFLOW_ERROR, val |-> 0]
    ELSE [exit |-> 0, val |-> a[2]]

\* str_to_ll: the status it exits with (0: it returns) and the value.
str_to_ll(a) ==
    IF a[1] = "junk" THEN [exit |-> BAD_NUMBER_FORMAT, val |-> 0]
    ELSE IF a[1] = "erange" THEN [exit |-> OVERFLOW_ERROR, val |-> 0]
    ELSE [exit |-> 0, val |-> a[2]]

\* A safe_close that never reaches close(2).
safe_close_noop(fd, close_ok) == [ret |-> TRUE, closed |-> {}]

\* safe_close(&fd), close(2) succeeding or not: the value returned, the
\* descriptor passed to close(2) if any; *fd is -1 afterwards.
safe_close(fd, close_ok) ==
    IF fd = -1 THEN [ret |-> TRUE, closed |-> {}]
    ELSE [ret |-> close_ok, closed |-> {fd}]

\* file_size(fd): -1 when fstat fails, -2 for anything but a regular file.
file_size(kind, len) ==
    IF kind = "nostat" THEN -1
    ELSE IF kind # "reg" THEN -2
    ELSE len

\* ------------------------------------------------------------------- main
\* main, lines 549-585: the defaults and the getopt_long loop.
main_args ==
    /\ pc = "start"
    /\ UNCHANGED <<fdVars, inputVars, out, errs, words_written, genVars, contentVars>>
    /\ \/ \* -h: the help message, EXIT_SUCCESS
          /\ Exit(EXIT_SUCCESS)
          /\ UNCHANGED mainVars
       \/ \* an unknown option, or more than one positional argument
          /\ Exit(INVALID_ARGUMENTS)
          /\ UNCHANGED mainVars
       \/ \E w \in WidthOpts, d \in DepthOpts,
             o \in {"NULL", "out.mif"}, i \in {"-", "in.bin"} :
            LET sw == IF w[1] = "absent" THEN [exit |-> 0, val |-> 8]
                      ELSE str_to_byte(w)
                sd == IF d[1] = "absent" THEN [exit |-> 0, val |-> -1]
                      ELSE str_to_ll(d)
            IN  IF sw.exit # 0
                THEN Exit(sw.exit) /\ UNCHANGED mainVars
                ELSE IF sd.exit # 0
                THEN Exit(sd.exit) /\ UNCHANGED mainVars
                ELSE /\ pc' = "open"
                     /\ width' = sw.val
                     /\ depth' = sd.val
                     /\ out_filename' = o
                     /\ in_filename' = i
                     /\ UNCHANGED exit_status

\* The lowest descriptor not in use, as open(2) returns it.
LowestFree(fds) == CHOOSE n \in 0 .. 8 : n \notin fds /\ \A m \in 0 .. n - 1 : m \in fds

\* main, lines 587-610: open the input and the output.
main_open ==
    /\ pc = "open"
    /\ UNCHANGED <<mainVars, double_closed, out, errs, words_written, genVars,
                   contentVars, in_pos>>
    /\ \/ \* open(in_filename) fails
          /\ in_filename # "-"
          /\ Exit(FILE_OPEN_FAILURE)
          /\ UNCHANGED <<in_fd, out_fd, open_fds, in_kind, in_len>>
       \/ \E kind \in {"reg", "fifo", "nostat"}, len \in 0 .. MaxInputLen :
            LET ifd == IF in_filename # "-" THEN LowestFree(open_fds)
                       ELSE STDIN_FILENO
                fds1 == open_fds \cup {ifd}
            IN  /\ in_kind' = kind
                /\ in_len' = len
                /\ \/ \* open(out_filename) fails: safe_close(&in_fd), err
                      /\ out_filename # "NULL"
                      /\ in_fd' = -1
                      /\ out_fd' = -1
                      /\ open_fds' = fds1 \ safe_close(ifd, TRUE).closed
                      /\ Exit(FILE_OPEN_FAILURE)
                   \/ /\ in_fd' = ifd
                      /\ out_fd' = IF out_filename # "NULL" THEN LowestFree(fds1)
                                   ELSE STDOUT_FILENO
                      /\ open_fds' = fds1 \cup {out_fd'}
                      /\ pc' = "generate"
                      /\ UNCHANGED exit_status

\* ----------------------------------------------------------- generate_mif
\* One write the sink received: the dprintf call that made it and its text.
Write(call, text) == [call |-> call, text |-> text]

\* generate_mif_header: the text of the header.
generate_mif_header(d, w) ==
    <<"DEPTH = ">> \o FmtDec(d) \o <<";\n", "WIDTH = ">> \o FmtDec(w)
    \o <<";\n", "ADDRESS_RADIX = ", "HEX", ";\n", "DATA_RADIX = ", "HEX", ";\n",
         "CONTENT\n", "BEGIN\n">>

\* A generate_mif that forgets the header.
HeaderWrites_none(d, w) == <<>>

\* generate_mif, line 529: what a successful generate_mif_header adds to the
\* sink.
HeaderWrites(d, w) == <<Write("header", generate_mif_header(d, w))>>

\* generate_mif, line 536: what a successful dprintf of the terminator adds.
EndWrites == <<Write("end", <<"END;\n">>)>>

\* The check with the code of a failed fstat instead of that of "not a
\* regular file".
DepthRequired_wrong_code(in_file_size, d) == in_file_size = -1 /\ d < 0

\* generate_mif, line 515: the depth was not given and cannot be inferred.
DepthRequired(in_file_size, d) == in_file_size = -2 /\ d < 0

\* generate_mif, line 521: the depth generation runs with.
ResolveDepth(in_file_size, d) == IF d < 0 THEN in_file_size ELSE d

\* generate_mif_content, lines 451-461: the locals before the loop.
content_locals ==
    /\ word_size' = width \div 8
    /\ addr_repr_width' = addr_width(gdepth')
    /\ buffer' = <<>>
    /\ words_read' = 0
    /\ put_aside_buffer' = [i \in 0 .. (width \div 8) - 1 |-> Uninit]
    /\ remainder_len' = 0
    /\ word_idx' = 0
    /\ addr' = 0
    /\ stack_fill' \in GarbageBytes
    /\ UNCHANGED <<byte_idx, handed, oob, last_fill>>

\* generate_mif, lines 506-532: validation, the header, the call of
\* generate_mif_content.
generate_mif_begin ==
    /\ pc = "generate"
    /\ UNCHANGED <<mainVars, fdVars, inputVars, exit_status, word_count>>
    /\ LET in_file_size == file_size(in_kind, in_len) IN
       IF in_file_size = -1
       THEN /\ errs' = Append(errs, "getting file size")
            /\ words_written' = -1
            /\ pc' = "generated"
            /\ UNCHANGED <<out, gdepth, contentVars>>
       ELSE IF DepthRequired(in_file_size, depth)
       THEN /\ errs' = Append(errs, "memory depth has to be given when reading from stdin")
            /\ words_written' = -1
            /\ pc' = "generated"
            /\ UNCHANGED <<out, gdepth, contentVars>>
       ELSE /\ gdepth' = ResolveDepth(in_file_size, depth)
            /\ errs' = IF depth >= 0 /\ in_file_size # -2
                          /\ in_file_size < (depth * width) \div 8
                       THEN Append(errs, "bytes were requested, but the input file only contains")
                       ELSE errs
            /\ \/ \* dprintf of the header fails
                  /\ words_written' = -1
                  /\ pc' = "generated"
                  /\ UNCHANGED <<out, contentVars>>
               \/ /\ out' = out \o HeaderWrites(gdepth', width)
                  /\ content_locals
                  /\ pc' = "loop"
                  /\ UNCHANGED words_written

\* ----------------------------------------------------------- read_aligned
\* The byte at an offset of the word buffer; Uninit where nothing was written.
BufAt(buf, o) == IF o \in DOMAIN buf THEN buf[o] ELSE Uninit

\* What read(2) may return for a request of count bytes with avail bytes left
\* before the end of the stream: a regular file gives all it has, a pipe any
\* positive part of it.
ReadReturns(kind, count, avail) ==
    IF count <= 0 \/ avail <= 0 THEN {0}
    ELSE IF kind = "reg" THEN {Min(count, avail)}
    ELSE 1 .. Min(count, avail)

\* The cells of a buffer that hold a byte of the input; the others hold
\* whatever the stack held.
Initialised(buf) ==
    [o \in {x \in DOMAIN buf : buf[x] # Uninit} |-> buf[o]]

\* A failure that forgets the carry.
CarryOnFailure_reset(rem) == 0

\* line 399: the return on a read error comes before line 402, *remainder_len
\* is what it was.
CarryOnFailure(rem) == rem

\* line 400 with the carry left out of the count.
BytesAvailable_no_carry(n, rem) == n

\* line 400: bytes_read += *remainder_len.
BytesAvailable(n, rem) == n + rem

\* read_aligned(fd, dest, nwords, word_size, put_aside, remainder_len) with
\* word_size > 0, the read returning n (-1: an error) from stream offset pos:
\* the value returned, the buffer, *remainder_len and the number of bytes
\* written past dest[nbytes - 1] afterwards.
read_aligned(buf, nwords, ws, pa, rem, pos, n) ==
    LET nbytes == nwords * ws
        bytes_read == BytesAvailable(n, rem)
        new_rem == bytes_read % ws
        tail_lo == rem + nbytes - new_rem
        carry == [o \in 0 .. rem - 1 |-> pa[o]]
        fill == [o \in rem .. rem + n - 1 |-> SrcByte(pos + (o - rem))]
        tail == [o \in {x \in tail_lo .. tail_lo + new_rem - 1 : x < nbytes}
                   |-> pa[o - tail_lo]]
    IN  IF n < 0
        THEN [ret |-> -1, buffer |-> Initialised(carry @@ buf),
              remainder_len |-> CarryOnFailure(rem), oob |-> 0]
        ELSE [ret |-> bytes_read \div ws,
              buffer |-> Initialised(tail @@ fill @@ carry @@ buf),
              remainder_len |-> new_rem,
              oob |-> Cardinality({o \in tail_lo .. tail_lo + new_rem - 1 : o >= nbytes})]

\* ------------------------------------------------- generate_mif_content
\* The loop with an inclusive bound.
LoopContinues_inclusive(a, d) == a <= d

\* line 462: the loop runs while addr < depth.
LoopContinues(a, d) == a < d

\* The check as an else-branch of the refill: it can never hold.
UnexpectedEOF_else_branch(wr, rem) == wr # 0 /\ wr = 0 /\ rem = 0

\* line 477: no word and no carry: the input ended.
UnexpectedEOF(wr, rem) == wr = 0 /\ rem = 0

\* lines 474, 480, 486, 494: what generate_mif_content returns when it stops
\* at address a because a read failed, the input ended or a write failed.
StopValue(a) == a

\* generate_mif_content returns v to generate_mif (line 532).
content_return(v) ==
    /\ word_count' = v
    /\ pc' = "end"

\* lines 462, 501: the loop is over, return depth.
content_done ==
    /\ pc = "loop"
    /\ ~LoopContinues(addr, gdepth)
    /\ content_return(gdepth)
    /\ UNCHANGED <<mainVars, fdVars, inputVars, out, errs, exit_status,
                   words_written, gdepth, contentVars>>

\* lines 464-481 with words_read # 0: no refill.
content_next ==
    /\ pc = "loop"
    /\ LoopContinues(addr, gdepth)
    /\ words_read # 0
    /\ pc' = "addr"
    /\ UNCHANGED <<mainVars, fdVars, inputVars, out, errs, exit_status,
                   words_written, genVars, contentVars>>

\* After the refill: lines 471-481.
after_refill(ret, rem) ==
    IF ret < 0
    THEN /\ errs' = Append(errs, "reading binary words from file")
         /\ content_return(StopValue(addr))
    ELSE IF UnexpectedEOF(ret, rem)
    THEN /\ errs' = Append(errs, "unexpected EOF")
         /\ content_return(StopValue(addr))
    ELSE /\ pc' = "addr"
         /\ UNCHANGED <<errs, word_count>>

\* lines 464-481 with words_read = 0: the refill through read_aligned.
content_refill ==
    /\ pc = "loop"
    /\ LoopContinues(addr, gdepth)
    /\ words_read = 0
    /\ UNCHANGED <<mainVars, fdVars, in_kind, in_len, out, words_written, gdepth,
                   word_size, addr_repr_width, put_aside_buffer, addr, byte_idx,
                   stack_fill, handed>>
    /\ word_idx' = 0
    /\ \E n \in ReadReturns(in_kind, INPUT_BUFFER_SIZE * word_size - remainder_len,
                            in_len - in_pos) \cup {-1} :
         /\ in_pos' = IF n > 0 THEN in_pos + n ELSE in_pos
         /\ IF n >= 0 /\ word_size = 0
            THEN \* lines 402-403 divide by zero: the process is killed, or the
                 \* quotient and the remainder are 0 where division does not trap
                 /\ UNCHANGED <<buffer, oob>>
                 /\ \/ /\ Exit(KilledFPE)
                       /\ UNCHANGED <<errs, word_count, words_read, remainder_len,
                                      last_fill>>
                    \/ /\ last_fill' = [called |-> TRUE, nwords |-> INPUT_BUFFER_SIZE,
                                             carry_in |-> remainder_len,
                                         nread |-> n, ret |-> 0, carry_out |-> 0]
                       /\ words_read' = 0
                       /\ remainder_len' = 0
                       /\ after_refill(0, 0)
                       /\ UNCHANGED exit_status
            ELSE LET r == read_aligned(buffer, INPUT_BUFFER_SIZE, word_size,
                                       put_aside_buffer, remainder_len, in_pos, n)
                 IN  /\ buffer' = r.buffer
                     /\ oob' = oob + r.oob
                     /\ \/ /\ last_fill' = [called |-> TRUE, nwords |-> INPUT_BUFFER_SIZE,
                                             carry_in |-> remainder_len,
                                             nread |-> n, ret |-> r.ret,
                                             carry_out |-> r.remainder_len]
                           /\ words_read' = r.ret
                           /\ remainder_len' = r.remainder_len
                           /\ after_refill(r.ret, r.remainder_len)
                           /\ UNCHANGED exit_status
                        \/ \* the write past the buffer kills the process
                           /\ r.oob > 0
                           /\ Exit(KilledSEGV)
                           /\ UNCHANGED <<errs, word_count, words_read, remainder_len,
                                          last_fill>>

\* line 483: the address field, "%0*llx : ".
FmtAddress(w, a) == FmtHexPad(w, a) \o <<" : ">>

\* line 488: the inner loop starts at the last byte of the word.
FirstByteIdx(ws) == ws - 1

\* line 488: --byte_idx.
NextByteIdx(i) == i - 1

\* lines 490-491: one byte of the word, ";\n" after the one at index 0.
FmtByte(b, i) == FmtHex2(b) \o (IF i = 0 THEN <<";\n">> ELSE <<>>)

\* The bytes of the word taken in ascending order.
ByteAt_ascending(word, i) == word[Len(word) - i]

\* line 491: buffer[word_idx][byte_idx] of the word being printed.
ByteAt(word, i) == word[i + 1]

\* lines 497-498 and the ++addr of line 462.
end_of_record ==
    /\ word_idx' = word_idx + 1
    /\ words_read' = words_read - 1
    /\ addr' = addr + 1
    /\ pc' = "loop"

\* buffer[word_idx] as the inner loop reads it, byte 0 first; a byte never
\* written has the value the stack held.
WordAt(buf, ws, idx, fill) ==
    [i \in 1 .. ws |-> LET c == BufAt(buf, idx * ws + i - 1)
                       IN  IF c = Uninit THEN fill ELSE c]

\* lines 483-487: dprintf of the address field.
content_write_addr ==
    /\ pc = "addr"
    /\ UNCHANGED <<mainVars, fdVars, inputVars, exit_status, words_written, gdepth,
                   word_size, addr_repr_width, buffer, put_aside_buffer,
                   remainder_len, stack_fill, oob, last_fill>>
    /\ \/ \* the write fails
          /\ errs' = Append(errs, "writing record to output")
          /\ content_return(StopValue(addr))
          /\ UNCHANGED <<out, words_read, word_idx, addr, byte_idx, handed>>
       \/ /\ out' = Append(out, Write("addr", FmtAddress(addr_repr_width, addr)))
          /\ handed' = Append(handed, WordAt(buffer, word_size, word_idx, stack_fill))
          /\ byte_idx' = FirstByteIdx(word_size)
          /\ IF FirstByteIdx(word_size) >= 0
             THEN /\ pc' = "byte"
                  /\ UNCHANGED <<words_read, word_idx, addr>>
             ELSE end_of_record
          /\ UNCHANGED <<errs, word_count>>

\* lines 488-498: dprintf of buffer[word_idx][byte_idx].
content_write_byte ==
    /\ pc = "byte"
    /\ UNCHANGED <<mainVars, fdVars, inputVars, exit_status, words_written, gdepth,
                   word_size, addr_repr_width, buffer, put_aside_buffer,
                   remainder_len, stack_fill, handed, oob, last_fill>>
    /\ \/ \* the write fails
          /\ errs' = Append(errs, "writing record to output")
          /\ content_return(StopValue(addr))
          /\ UNCHANGED <<out, words_read, word_idx, addr, byte_idx>>
       \/ /\ out' = Append(out, Write("byte",
                        FmtByte(ByteAt(handed[Len(handed)], byte_idx), byte_idx)))
          /\ byte_idx' = NextByteIdx(byte_idx)
          /\ IF NextByteIdx(byte_idx) >= 0
             THEN /\ pc' = "byte"
                  /\ UNCHANGED <<words_read, word_idx, addr>>
             ELSE end_of_record
          /\ UNCHANGED <<errs, word_count>>

\* generate_mif, lines 533-542: the terminator.
generate_mif_end ==
    /\ pc = "end"
    /\ pc' = "generated"
    /\ UNCHANGED <<mainVars, fdVars, inputVars, exit_status, genVars, contentVars>>
    /\ IF word_count < 0
       THEN /\ words_written' = -1
            /\ UNCHANGED <<out, errs>>
       ELSE \/ \* the write fails
               /\ errs' = Append(errs, "ending .mif file")
               /\ words_written' = -1
               /\ UNCHANGED out
            \/ /\ out' = out \o EndWrites
               /\ words_written' = word_count
               /\ UNCHANGED errs

\* main, lines 614-639: the outcome, the release of the descriptors, the
\* exit status.
main_finish ==
    /\ pc = "generated"
    /\ UNCHANGED <<mainVars, inputVars, out, words_written, genVars, contentVars>>
    /\ \E ok1 \in BOOLEAN, ok2 \in BOOLEAN :
        LET early == words_written # depth
            \* lines 617-618
            c1 == IF early THEN safe_close(in_fd, ok1).closed ELSE {}
            c2 == IF early THEN safe_close(out_fd, ok2).closed ELSE {}
            in1 == IF early THEN -1 ELSE in_fd
            out1 == IF early THEN -1 ELSE out_fd
            fds1 == (open_fds \ c1) \ c2
            dbl1 == double_closed \cup (c1 \ open_fds) \cup (c2 \ (open_fds \ c1))
        IN  IF early /\ words_written < 0
            THEN /\ in_fd' = in1
                 /\ out_fd' = out1
                 /\ open_fds' = fds1
                 /\ double_closed' = dbl1
                 /\ errs' = errs
                 /\ Exit(GENRATOR_FAILURE)
            ELSE \* lines 624-639
                 LET s1 == safe_close(in1, ok1)
                     s2 == IF out_filename # "NULL" THEN safe_close(out1, ok2)
                           ELSE [ret |-> TRUE, closed |-> {}]
                     fds2 == (fds1 \ s1.closed) \ s2.closed
                 IN  /\ in_fd' = -1
                     /\ out_fd' = IF out_filename # "NULL" THEN -1 ELSE out1
                     /\ open_fds' = fds2
                     /\ double_closed' = dbl1 \cup (s1.closed \ fds1)
                                              \cup (s2.closed \ (fds1 \ s1.closed))
                     /\ errs' = (IF s1.ret THEN errs ELSE Append(errs, "closing file"))
                                \o (IF s2.ret THEN <<>> ELSE <<"closing file">>)
                     /\ Exit(IF s1.ret /\ s2.ret THEN EXIT_SUCCESS
                             ELSE FILE_CLOSE_FAILURE)

Next ==
    \/ main_args
    \/ main_open
    \/ generate_mif_begin
    \/ content_done
    \/ content_next
    \/ content_refill
    \/ content_write_addr
    \/ content_write_byte
    \/ generate_mif_end
    \/ main_finish

Spec == Init /\ [][Next]_vars

\* ========================================================== properties
Killed == exit_status \in {KilledFPE, KilledSEGV}

Warned(msg) == \E i \in 1 .. Len(errs) : errs[i] = msg

\* generate_mif_content has returned to generate_mif.
ContentReturned ==
    \/ pc = "end"
    \/ /\ pc \in {"generated", "exited"}
       /\ out # <<>>
       /\ ~Killed

\* The value of a run of hexadecimal digits, -1 if one is no lowercase digit.
RECURSIVE HexValue(_)
HexValue(t) ==
    IF t = <<>> THEN 0
    ELSE LET c == t[Len(t)]
             hi == HexValue(SubSeq(t, 1, Len(t) - 1))
         IN  IF hi < 0 \/ ~(\E v \in 1 .. 16 : HexDigits[v] = c) THEN -1
             ELSE 16 * hi + (CHOOSE v \in 0 .. 15 : HexDigits[v + 1] = c)

\* The positions in the sink of the writes of one dprintf call site.
WritesOf(call) == {i \in 1 .. Len(out) : out[i].call = call}

\* The number of address fields written.
NumAddr == Cardinality(WritesOf("addr"))

\* A record is one write of the address field and word_size writes of a
\* byte, and the records follow the header: the position of the address
\* write of record k (from 1), and the record the write at i belongs to.
AddrPos(k) == 2 + (k - 1) * (word_size + 1)
RecordOf(i) == ((i - 2) \div (word_size + 1)) + 1

\* The address fields are where the layout puts them.
AddrInPlace ==
    \A k \in 1 .. NumAddr :
        AddrPos(k) <= Len(out) /\ out[AddrPos(k)].call = "addr"

\* The address printed at position i: the digits before " : ".
AddrAt(i) == HexValue(SubSeq(out[i].text, 1, Len(out[i].text) - 1))

\* The records whose last byte and ";\n" were written.
CompleteRecords ==
    {k \in 1 .. NumAddr :
        /\ AddrPos(k) + word_size <= Len(out)
        /\ out[AddrPos(k)].call = "addr"
        /\ \A j \in 1 .. word_size : out[AddrPos(k) + j].call = "byte"}

\* The sink holds exactly n records, complete, with addresses 0 .. n - 1 in
\* this order.
HoldsRecords(n) ==
    /\ NumAddr = n
    /\ AddrInPlace
    /\ \A k \in 1 .. n : k \in CompleteRecords /\ AddrAt(AddrPos(k)) = k - 1

\* The width is one the help message allows: a positive multiple of 8.
LegalWidth == width > 0 /\ width % 8 = 0

\* The word of the input stream at address a (from 0), first byte first.
SourceWord(a, ws) == [i \in 1 .. ws |-> SrcByte(a * ws + i - 1)]

\* C1: whatever the sizes of the reads, the words handed to the emitter are
\* the words of the input stream: word k is bytes k*word_size ..
\* k*word_size + word_size - 1, for an input of whole words.
C1_ShortReadsSameWords ==
    (word_size > 0 /\ in_len % word_size = 0) =>
        \A k \in 1 .. Len(handed) : handed[k] = SourceWord(k - 1, word_size)

\* C2: a refill that yields no word and leaves no carry stops the emission at
\* once, and generate_mif_content returns the number of records written so
\* far, which is less than depth; 3 bytes with width 8 and depth 4 give the
\* records 0, 1, 2 and the count 3, and so does every input of n < depth
\* whole words whose reads end on word boundaries (no read or write failing).
C2_EofReturnsCount ==
    /\ (last_fill.called /\ last_fill.ret = 0 /\ last_fill.carry_out = 0) =>
          /\ pc \in {"end", "generated", "exited"}
          /\ Warned("unexpected EOF")
          /\ word_count = addr
          /\ word_count < gdepth
          /\ HoldsRecords(word_count)
    /\ (Warned("unexpected EOF") /\ in_len = 3 /\ width = 8 /\ depth = 4) =>
          /\ word_count = 3
          /\ HoldsRecords(3)
    /\ (/\ ContentReturned
        /\ ~Warned("reading binary words from file")
        /\ ~Warned("writing record to output")
        /\ word_size > 0
        /\ in_kind = "reg" \/ word_size = 1
        /\ in_len % word_size = 0
        /\ in_len \div word_size < gdepth) =>
          /\ Warned("unexpected EOF")
          /\ word_count = in_len \div word_size
          /\ HoldsRecords(in_len \div word_size)

C2_Witness ==
    /\ pc = "exited"
    /\ Warned("unexpected EOF")
    /\ in_len = 3 /\ width = 8 /\ depth = 4
    /\ word_count = 3
    /\ last_fill.ret = 0 /\ last_fill.carry_out = 0

\* C3: for a legal width, when a refill fails, generate_mif_content stops and returns a negative
\* value.
C3_ReadFailureNegative ==
    (LegalWidth /\ Warned("reading binary words from file")) =>
        /\ pc \in {"end", "generated", "exited"}
        /\ word_count < 0

\* C4: for a legal width, when a write of a record fails, generate_mif_content returns a
\* negative value and nothing is written to the sink afterwards.
C4_WriteFailureNegative ==
    (LegalWidth /\ Warned("writing record to output")) =>
        /\ pc \in {"end", "generated", "exited"}
        /\ word_count < 0
        /\ WritesOf("end") = {}

\* C5: a run with a legal width that stopped early on a clean end of the input, all its writes
\* having succeeded, ends with a status that is neither the status of
\* success nor the status of a generation failure.
C5_EarlyStopDistinct ==
    (/\ pc = "exited"
     /\ LegalWidth
     /\ Warned("unexpected EOF")
     /\ ~Warned("ending .mif file")) =>
        exit_status \notin {EXIT_SUCCESS, GENRATOR_FAILURE}

\* C6: with a legal width, no --depth and a regular input file, the depth of the header and
\* of the emission is size_in_bytes * 8 / width.
C6_InferredDepth ==
    (/\ in_kind = "reg" /\ depth < 0
     /\ LegalWidth
     /\ out # <<>>) =>
        /\ gdepth = (in_len * 8) \div width
        /\ out[1].text = generate_mif_header((in_len * 8) \div width, width)

\* C7: with no --depth and an input that is not a regular file,
\* generate_mif fails before anything is written: the sink stays empty, the
\* depth is reported as required and generate_mif returns -1.
C7_DepthRequiredNoOutput ==
    (in_kind = "fifo" /\ depth < 0) =>
        /\ out = <<>>
        /\ pc = "generated" =>
              /\ words_written = -1
              /\ errs = <<"memory depth has to be given when reading from stdin">>

C7_Witness ==
    /\ pc = "exited"
    /\ in_kind = "fifo" /\ depth < 0 /\ in_len > 0
    /\ errs = <<"memory depth has to be given when reading from stdin">>
    /\ words_written = -1
    /\ out = <<>>

\* generate_mif_content ran its loop to the end: it returned without a
\* failed read, an end of input or a failed write.
ContentSucceeded ==
    /\ ContentReturned
    /\ ~Warned("reading binary words from file")
    /\ ~Warned("unexpected EOF")
    /\ ~Warned("writing record to output")

\* C8: when generate_mif_content finishes successfully it returns depth, and
\* the sink holds exactly depth records, with the addresses 0, 1, ...,
\* depth - 1 in this order.
C8_SuccessAllRecords ==
    ContentSucceeded =>
        /\ word_count = gdepth
        /\ addr = gdepth
        /\ HoldsRecords(gdepth)

C8_Witness ==
    /\ ContentSucceeded
    /\ pc = "exited"
    /\ word_size = 2
    /\ gdepth = 2
    /\ HoldsRecords(2)

\* The header is the first write and the only header; the terminator, if
\* written, is the last write; the addresses of the records are 0, 1, 2, ...
\* in the order of the writes.
HeaderFirstEndLast ==
    /\ WritesOf("header") = {1}
    /\ \A i \in WritesOf("end") : i = Len(out)
    /\ AddrInPlace
    /\ \A k \in 1 .. NumAddr : AddrAt(AddrPos(k)) = k - 1

\* C9 as stated: every run that produces records leaves in the sink the
\* header, the records in address order and the terminator exactly once,
\* last.
C9_AlwaysTerminated ==
    (pc = "exited" /\ ~Killed /\ CompleteRecords # {}) =>
        /\ HeaderFirstEndLast
        /\ WritesOf("end") = {Len(out)}

\* C9, amended: in every run that produces records the header is the first
\* write, the records follow in address order and the terminator is written
\* at most once, last; it is written exactly once when generate_mif returns
\* a count and not -1, that is unless the write of the terminator fails.
C9_TerminatedUnlessWriteFails ==
    WritesOf("addr") # {} =>
        /\ HeaderFirstEndLast
        /\ (pc \in {"generated", "exited"} /\ ~Killed) =>
              IF words_written >= 0
              THEN WritesOf("end") = {Len(out)}
              ELSE WritesOf("end") = {} /\ Warned("ending .mif file")

C9_Witness ==
    /\ pc = "exited"
    /\ NumAddr >= 2
    /\ WritesOf("end") = {Len(out)}
    /\ words_written = depth

\* C10: the data field of a record is the bytes of the word from the last
\* to the first, each as two lowercase hexadecimal digits, with ";\n" after
\* the byte of index 0 and nothing between the bytes; the word 0x12 0x34 is
\* printed as 3412.
C10_DataFieldDescending ==
    /\ \A i \in WritesOf("byte") :
          LET k == RecordOf(i)
              j == i - AddrPos(k)
              t == out[i].text
          IN  /\ i >= 2
              /\ j \in 1 .. word_size
              /\ out[AddrPos(k)].call = "addr"
              /\ k <= Len(handed)
              /\ Len(t) = IF j = word_size THEN 3 ELSE 2
              /\ HexValue(SubSeq(t, 1, 2)) = handed[k][word_size - j + 1]
              /\ j = word_size => t[3] = ";\n"
    /\ \A k \in CompleteRecords :
          (word_size = 2 /\ handed[k] = <<18, 52>>) =>
              out[AddrPos(k) + 1].text \o out[AddrPos(k) + 2].text
                  = <<"3", "4", "1", "2", ";\n">>

C10_Witness ==
    /\ word_size = 2
    /\ \E k \in CompleteRecords : handed[k] = <<18, 52>>
    /\ \E k \in CompleteRecords : handed[k] = <<86, 120>>


\* ------------------------------------------------ the address field alone
\* The depths the address field is tried with.
AddrDepths == {1, 2, 15, 16, 17, 255, 256, 257}

\* generate_mif_content at the top of its loop (line 462), the header
\* written, for a depth of AddrDepths and width 8.
AddrInit ==
    /\ pc = "format_address"
    /\ depth \in AddrDepths
    /\ gdepth = depth
    /\ width = 8
    /\ word_size = 1
    /\ addr_repr_width = addr_width(gdepth)
    /\ out = HeaderWrites(gdepth, width)
    /\ addr = 0
    /\ in_filename = "-"
    /\ out_filename = "NULL"
    /\ in_fd = STDIN_FILENO
    /\ out_fd = STDOUT_FILENO
    /\ open_fds = {0, 1, 2}
    /\ double_closed = {}
    /\ in_kind = "fifo"
    /\ in_len = 0
    /\ in_pos = 0
    /\ errs = <<>>
    /\ exit_status = -1
    /\ words_written = 0
    /\ word_count = 0
    /\ buffer = <<>>
    /\ words_read = 0
    /\ put_aside_buffer = [i \in 0 .. 0 |-> Uninit]
    /\ remainder_len = 0
    /\ word_idx = 0
    /\ byte_idx = 0
    /\ stack_fill = 0
    /\ handed = <<>>
    /\ oob = 0
    /\ last_fill = NoFill

\* lines 462 and 483 for one address: the dprintf of the address field, the
\* data field left aside.
format_address ==
    /\ pc = "format_address"
    /\ LoopContinues(addr, gdepth)
    /\ out' = Append(out, Write("addr", FmtAddress(addr_repr_width, addr)))
    /\ addr' = addr + 1
    /\ UNCHANGED <<pc, mainVars, fdVars, inputVars, errs, exit_status,
                   words_written, genVars, word_size, addr_repr_width, buffer,
                   words_read, put_aside_buffer, remainder_len, word_idx,
                   byte_idx, stack_fill, handed, oob, last_fill>>

AddrNext == format_address

AddrSpec == AddrInit /\ [][AddrNext]_vars

\* The digits of the address field written at position i.
AddrDigits(i) == SubSeq(out[i].text, 1, Len(out[i].text) - 1)

\* C11: every address field has as many digits as num_len(depth - 1, 16)
\* gives, the digits are those of the address (none is cut), and this width
\* is 1 for depth 1 and 16, 2 for depth 17 and 256.
C11_AddressWidthStable ==
    /\ \A i \in WritesOf("addr") :
          /\ Len(AddrDigits(i)) = addr_repr_width
          /\ HexValue(AddrDigits(i)) = i - 2
          /\ out[i].text[Len(out[i].text)] = " : "
    /\ gdepth \in {1, 2, 15, 16} => addr_repr_width = 1
    /\ gdepth \in {17, 255, 256} => addr_repr_width = 2
    /\ gdepth = 257 => addr_repr_width = 3

C11_Witness ==
    /\ gdepth = 256
    /\ addr = 256
    /\ NumAddr = 256
    /\ AddrDigits(257) = <<"f", "f">>
    /\ AddrDigits(2) = <<"0", "0">>

\* ------------------------------------------------ read_aligned alone
\* The word sizes and the buffer capacities (in words) read_aligned is
\* tried with.
FillWordSizes == {1, 2, 4, 8}
FillCapacities == {1, 17, 128}

\* generate_mif_content before a call of read_aligned, for a word size of
\* FillWordSizes and a carry below the word size.
FillInit ==
    /\ pc = "fill"
    /\ word_size \in FillWordSizes
    /\ width = 8 * word_size
    /\ remainder_len \in 0 .. word_size - 1
    /\ put_aside_buffer = [i \in 0 .. word_size - 1 |-> Uninit]
    /\ stack_fill = 0
    /\ depth = -1
    /\ gdepth = 0
    /\ addr_repr_width = addr_width(gdepth)
    /\ out = <<>>
    /\ addr = 0
    /\ in_filename = "-"
    /\ out_filename = "NULL"
    /\ in_fd = STDIN_FILENO
    /\ out_fd = STDOUT_FILENO
    /\ open_fds = {0, 1, 2}
    /\ double_closed = {}
    /\ in_kind = "fifo"
    /\ in_len = 0
    /\ in_pos = 0
    /\ errs = <<>>
    /\ exit_status = -1
    /\ words_written = 0
    /\ word_count = 0
    /\ buffer = <<>>
    /\ words_read = 0
    /\ word_idx = 0
    /\ byte_idx = 0
    /\ handed = <<>>
    /\ oob = 0
    /\ last_fill = NoFill

\* lines 387-407: one call of read_aligned into a buffer of nwords words; read
\* returns any count from 0 to the bytes asked for, or fails.
fill_once ==
    /\ pc = "fill"
    /\ pc' = "filled"
    /\ \E nwords \in FillCapacities :
       \E n \in (0 .. nwords * word_size - remainder_len) \cup {-1} :
         \E r \in {read_aligned(buffer, nwords, word_size, put_aside_buffer,
                                 remainder_len, in_pos, n)} :
             /\ buffer' = r.buffer
             /\ oob' = oob + r.oob
             /\ words_read' = r.ret
             /\ remainder_len' = r.remainder_len
             /\ in_pos' = IF n > 0 THEN in_pos + n ELSE in_pos
             /\ in_len' = in_pos'
             /\ last_fill' = [called |-> TRUE, nwords |-> nwords,
                              carry_in |-> remainder_len, nread |-> n,
                              ret |-> r.ret, carry_out |-> r.remainder_len]
    /\ UNCHANGED <<mainVars, fdVars, in_kind, out, errs, exit_status,
                   words_written, genVars, word_size, addr_repr_width,
                   put_aside_buffer, word_idx, addr, byte_idx, stack_fill,
                   handed>>

FillNext == fill_once

FillSpec == FillInit /\ [][FillNext]_vars

\* C12: after a call of read_aligned that does not fail, the words it
\* returns and the carry it leaves account for every byte it had: the words
\* times the word size plus the new carry equal the prior carry plus the bytes
\* read, the new carry below the word size.
C12_FillAccounting ==
    (last_fill.called /\ last_fill.ret >= 0) =>
        /\ last_fill.ret * word_size + last_fill.carry_out
             = last_fill.carry_in + last_fill.nread
        /\ last_fill.carry_out \in 0 .. word_size - 1
        /\ last_fill.ret \in 0 .. last_fill.nwords
        /\ words_read = last_fill.ret
        /\ remainder_len = last_fill.carry_out

C12_Witness ==
    /\ last_fill.called
    /\ word_size = 8
    /\ last_fill.nwords = 17
    /\ last_fill.carry_in = 7
    /\ last_fill.nread = 3
    /\ last_fill.ret = 1
    /\ last_fill.carry_out = 2

\* The descriptors the process starts with.
Inherited == {0, 1, 2}

\* C13: when main exits, by return, exit or err, on any path (an open
\* failure, a generation failure, an early stop, success), no descriptor the
\* program opened is still open, and at no time has a descriptor been passed
\* to close(2) after it was closed.
C13_HandlesReleased ==
    /\ double_closed = {}
    /\ (pc = "exited" /\ ~Killed) =>
          /\ open_fds \subseteq Inherited
          /\ in_fd = -1 \/ in_fd = STDIN_FILENO
          /\ out_fd = -1 \/ out_fd = STDOUT_FILENO

\* An early stop with both files opened by the program: lines 617-618 close
\* them and lines 624-634 run as well.
C13_Witness ==
    /\ pc = "exited"
    /\ exit_status = EXIT_SUCCESS
    /\ in_filename = "in.bin"
    /\ out_filename = "out.mif"
    /\ depth > 0
    /\ words_written >= 0
    /\ words_written < depth
    /\ open_fds = Inherited
    /\ in_fd = -1
    /\ out_fd = -1

\* generate_mif_content is running: between its entry and its return.
InContent == pc \in {"loop", "addr", "byte"}

\* C14: whenever generate_mif_content runs, the width is a positive multiple
\* of 8, the word size at least 1 and 8 times the word size the width.
C14_WidthMultipleOf8 ==
    InContent => /\ LegalWidth
                 /\ word_size >= 1
                 /\ word_size * 8 = width

\* The most recent call of read_aligned returned without failure.
FillSucceeded == last_fill.called /\ last_fill.ret >= 0 /\ ~Killed

\* C15: after a fill that succeeds, the carry buffer holds the bytes of the
\* input that follow the last complete word (the last remainder_len bytes
\* read so far), and a fill that started with a carry has those carried bytes
\* of the input at the front of the word buffer, before the bytes it read.
C15_CarryPreserved ==
    (LegalWidth /\ FillSucceeded) =>
        /\ \A i \in 0 .. remainder_len - 1 :
              put_aside_buffer[i] = SrcByte(in_pos - remainder_len + i)
        /\ \A i \in 0 .. last_fill.carry_in - 1 :
              BufAt(buffer, i)
                = SrcByte(in_pos - last_fill.nread - last_fill.carry_in + i)

\* This step is a call of read_aligned that returns -1.
FillFails == last_fill' # last_fill /\ last_fill'.ret = -1

\* C16: a call of read_aligned whose read reports an error returns -1 and
\* leaves the carry length and the carry buffer as they were before the call.
C16_FailureKeepsCarry ==
    [][FillFails => /\ remainder_len' = remainder_len
                    /\ put_aside_buffer' = put_aside_buffer
                    /\ words_read' = -1]_vars

\* A read error that follows a fill which left a carry.
C16_Witness ==
    /\ last_fill.called
    /\ last_fill.ret = -1
    /\ last_fill.nread = -1
    /\ last_fill.carry_in > 0
    /\ remainder_len = last_fill.carry_in

\* C17: with a legal width, the records written are never more than the
\* whole words among the bytes read from the input so far, and the record at
\* address a was made from input bytes a * word_size to
\* a * word_size + word_size - 1.
C17_NoIncompleteWord ==
    (LegalWidth /\ word_size * 8 = width) =>
        /\ Len(handed) <= in_pos \div word_size
        /\ \A k \in 1 .. Len(handed) : handed[k] = SourceWord(k - 1, word_size)

\* C18: with a legal width, whenever a record is being formatted the cursor
\* is inside the words the most recent read_aligned call returned, that count
\* within the buffer, and the count of words left is never negative.
C18_CursorInsideFill ==
    LegalWidth =>
        /\ pc \in {"addr", "byte"} =>
              /\ last_fill.called
              /\ 0 <= word_idx
              /\ word_idx < last_fill.ret
              /\ last_fill.ret <= INPUT_BUFFER_SIZE
        /\ InContent => words_read >= 0

\* C19: with a legal width, no call of read_aligned has written a byte at or
\* past offset nwords * word_size of the word buffer.
C19_WritesInsideBuffer == LegalWidth => oob = 0

====
